---- MODULE Spec2Model ----
(***************************************************************************)
(* Arrival playback of the LPP bus visualization:                          *)
(*   visualization/src/lpp/replayer.ts  (TimeOfDay, BusArrivalPlayback)    *)
(*   visualization/src/lpp/stationSearcher.ts  (StationSearcher)           *)
(*   visualization/src/lpp/index.ts     (GeographicalLocation, snapshots)  *)
(*   visualization/src/main.ts          (droplets, day selection, p.draw)  *)
(*   utilities.ts                       (clamp)                            *)
(*                                                                         *)
(* Minutes are modelled as whole numbers; the code also accepts fractional *)
(* minutes, which none of the properties below depends on.                 *)
(***************************************************************************)
EXTENDS Integers, Sequences, FiniteSets, TLC

VARIABLES
    stationsSnapshot,   \* BusArrivalPlayback.stationsSnapshot
    currentDayTime,     \* BusArrivalPlayback.currentDayTime
    optimizedArrivals,  \* BusArrivalPlayback.optimizedArrivals
    arrivalSets,        \* the list returned by the last BusArrivalPlayback.tick
    lastOp,             \* "construct" or "tick": the last engine operation
    minutes,            \* argument of the last BusArrivalPlayback.tick
    timeBefore,         \* currentDayTime when the last tick was entered
    arrivalsBefore,     \* optimizedArrivals when the last tick was entered
    drainedEmpty,       \* the drain loop of the last tick left the queue empty
    returnedToday,      \* times of the batches returned since the last wrap
    tod,                \* a free-standing TimeOfDay object
    todOp,              \* "construct", "reset" or "tick": last operation on tod
    todArgs,            \* arguments of the last operation on tod
    todBefore,          \* tod when the last operation on it was entered
    todResult,          \* what the last operation on tod returned or threw
    stationSearcher,    \* main.ts stationSearcher, a StationSearcher
    targetLocation,     \* argument of the last StationSearcher.getClosestStation
    closestStationData, \* what the last getClosestStation returned
    selectedStationSnapshotIndex,   \* main.ts selectedStationSnapshotIndex
    selectedStationSnapshot,        \* main.ts selectedStationSnapshot
    activeDroplets,     \* main.ts activeDroplets
    isSimulationPaused, \* main.ts isSimulationPaused
    drawFailed,         \* a draw call has ended in an uncaught ProjectError
    isFastForwarding,   \* main.ts isFastForwarding
    currentRealTimeSecondsPerSimulatedMinute,   \* main.ts, of the same name
    lastDrawAge,        \* wall time from lastDrawTime to the end of the last step
    currentStationPopup,    \* main.ts currentStationPopup
    uiOp,               \* the last step of main.ts: "select", "draw", "pause", ...
    uiArgs,             \* arguments of the last step of main.ts
    uiBefore,           \* clock, droplets and index when that step was entered
    jsonData,           \* the JSON document handed to AllStationsSnapshot.fromRawData
    loadResult,         \* what the last AllStationsSnapshot.fromRawData returned or threw
    tickSelf,           \* the TimeOfDay of a TimeOfDay.tick call in progress
    tickArg,            \* the argument of that call
    tickPc,             \* where that call is: "call", "minutes", "hours" or "done"
    startPhase,         \* what the DOMContentLoaded handler awaits or has done
    stationSnapshotsLoaded, \* stationSnapshots.length in loadAllAvailableStationSnapshots
    unsetRead           \* the variables handlers have read before their assignment

engineVars == <<stationsSnapshot, currentDayTime, optimizedArrivals, arrivalSets,
                lastOp, minutes, timeBefore, arrivalsBefore, drainedEmpty,
                returnedToday>>
clockVars == <<tod, todOp, todArgs, todBefore, todResult>>
searchVars == <<stationSearcher, targetLocation, closestStationData>>
uiVars == <<selectedStationSnapshotIndex, selectedStationSnapshot, activeDroplets,
            isSimulationPaused, drawFailed, isFastForwarding,
            currentRealTimeSecondsPerSimulatedMinute, lastDrawAge,
            currentStationPopup, uiOp, uiArgs, uiBefore>>
loadVars == <<jsonData, loadResult>>
stepVars == <<tickSelf, tickArg, tickPc>>
startVars == <<startPhase, stationSnapshotsLoaded, unsetRead>>
auxVars == <<loadVars, stepVars, startVars>>
vars == <<engineVars, clockVars, searchVars, uiVars, auxVars>>

-----------------------------------------------------------------------------
(* Program constants. *)

MinHour == 1
MaxHour == 24
MinMinute == 0
MaxMinute == 59
MinutesPerHour == 60
HoursPerDay == 24
HourOverflow == 25
MinutesPerDay == HoursPerDay * MinutesPerHour

(* Bounds of the model. *)

MaxSmallDelta == 2
LongDelta == 25
MaxDays == 2
InputSlack == 2
MaxCoordinate == 1
MaxStations == 3

-----------------------------------------------------------------------------
(* utilities.ts *)

\* clamp with the two bounds returned the wrong way round.
clampSwapped(value, minimum, maximum) ==
    IF value > maximum THEN minimum
    ELSE IF value < minimum THEN maximum
    ELSE value

clamp(value, minimum, maximum) ==
    IF value > maximum THEN maximum
    ELSE IF value < minimum THEN minimum
    ELSE value

-----------------------------------------------------------------------------
(* replayer.ts: TimeOfDay *)

TimeOfDay(initialHour, initialMinute) ==
    [hour |-> clamp(initialHour, MinHour, MaxHour),
     minute |-> clamp(initialMinute, MinMinute, MaxMinute)]

resetTimeTo(self, hour, minute) ==
    [self EXCEPT !.hour = clamp(hour, MinHour, MaxHour),
                 !.minute = clamp(minute, MinMinute, MaxMinute)]

\* reflowUnits carrying at most one hour (an if in place of the while).
reflowMinutesOnce(self) ==
    IF self.minute >= MinutesPerHour
    THEN [hour |-> self.hour + 1, minute |-> self.minute - MinutesPerHour]
    ELSE self

RECURSIVE reflowMinutes(_)
reflowMinutes(self) ==
    IF self.minute >= MinutesPerHour
    THEN reflowMinutes([hour |-> self.hour + 1, minute |-> self.minute - MinutesPerHour])
    ELSE self

RECURSIVE reflowHours(_)
reflowHours(self) ==
    IF self.hour >= HourOverflow
    THEN reflowHours([self EXCEPT !.hour = self.hour - HoursPerDay])
    ELSE self

\* reflowUnits without the loop that wraps the hour.
reflowUnitsNoWrap(self) == reflowMinutes(self)

reflowUnits(self) == reflowHours(reflowMinutes(self))

TimeOfDay_tick(self, delta) ==
    reflowUnits([self EXCEPT !.minute = self.minute + delta])

\* initialSimulationTime.clone() of main.ts: a new TimeOfDay with the same
\* hour and minute.
TimeOfDay_clone(self) == TimeOfDay(self.hour, self.minute)

\* What a call leaves behind: a returned value or a thrown ProjectError.
Returned(value) == [threw |-> FALSE, value |-> value]
Thrown == [threw |-> TRUE]
NoResult == [threw |-> FALSE]

\* elapsedSince with the minutes compared whatever the hours are.
elapsedSinceMinuteOnly(self, preceedingTime) ==
    IF preceedingTime.hour > self.hour THEN Thrown
    ELSE IF preceedingTime.minute > self.minute THEN Thrown
    ELSE Returned((self.hour - preceedingTime.hour) * MinutesPerHour
                  + (self.minute - preceedingTime.minute))

elapsedSince(self, preceedingTime) ==
    IF preceedingTime.hour > self.hour THEN Thrown
    ELSE IF preceedingTime.hour = self.hour /\ preceedingTime.minute > self.minute
         THEN Thrown
    ELSE Returned((self.hour - preceedingTime.hour) * MinutesPerHour
                  + (self.minute - preceedingTime.minute))

-----------------------------------------------------------------------------
(* index.ts: GeographicalLocation.  Coordinates are whole numbers of a small  *)
(* grid.  The field object tells the object a snapshot holds from a copy made *)
(* of it: two records that differ in it are two objects in memory.            *)

Original == "original"
Copy == "copy"

GeographicalLocation(latitude, longitude) ==
    [latitude |-> latitude, longitude |-> longitude, object |-> Original]

\* clone handing back the object it was called on.
cloneSameObject(self) == self

clone(self) ==
    [GeographicalLocation(self.latitude, self.longitude) EXCEPT !.object = Copy]

\* leaflet's LatLng
LatLng(lat, lng) == [lat |-> lat, lng |-> lng]

\* Stands for the great-circle distance in kilometres: like it, it is zero for
\* equal coordinates, positive otherwise, symmetric, and the same for several
\* different points around a target.
haversineDistance(firstLatitude, firstLongitude, secondLatitude, secondLongitude) ==
    (secondLatitude - firstLatitude) * (secondLatitude - firstLatitude)
    + (secondLongitude - firstLongitude) * (secondLongitude - firstLongitude)

distanceToLeafetLatLng(self, other) ==
    haversineDistance(self.latitude, self.longitude, other.lat, other.lng)

-----------------------------------------------------------------------------
(* replayer.ts: arrival index *)

\* BusArrival with route and trip name stored in each other's field.
BusArrivalSwapped(route, tripName, location) ==
    [route |-> tripName, tripName |-> route, location |-> location]

BusArrival(route, tripName, location) ==
    [route |-> route, tripName |-> tripName, location |-> location]

ArrivalSet(time, arrivals) == [time |-> time, arrivals |-> arrivals]

\* A comparator that looks at the hours only.
compareHoursOnly(first, second) == first.time.hour - second.time.hour

\* The comparator handed to Array.sort.
compareArrivalSets(first, second) ==
    IF first.time.hour = second.time.hour
    THEN first.time.minute - second.time.minute
    ELSE first.time.hour - second.time.hour

\* Array.sort is stable: an element goes after every element that does not
\* compare greater than it.
RECURSIVE insertSorted(_, _)
insertSorted(sorted, set) ==
    IF sorted = <<>> THEN <<set>>
    ELSE IF compareArrivalSets(Head(sorted), set) <= 0
         THEN <<Head(sorted)>> \o insertSorted(Tail(sorted), set)
         ELSE <<set>> \o sorted

RECURSIVE sortArrivalSetArray(_)
sortArrivalSetArray(array) ==
    IF array = <<>> THEN <<>>
    ELSE insertSorted(sortArrivalSetArray(SubSeq(array, 1, Len(array) - 1)),
                      array[Len(array)])

\* The four nested loops, innermost first: one (timetable entry, arrival) per
\* entry, in traversal order.
RECURSIVE forTimetableEntries(_, _, _, _)
forTimetableEntries(location, route, tripName, timetable) ==
    IF timetable = <<>> THEN <<>>
    ELSE <<[hour |-> Head(timetable).hour,
            minute |-> Head(timetable).minute,
            arrival |-> BusArrival(route, tripName, location)]>>
         \o forTimetableEntries(location, route, tripName, Tail(timetable))

RECURSIVE forTripTimetables(_, _)
forTripTimetables(location, tripTimetables) ==
    IF tripTimetables = <<>> THEN <<>>
    ELSE forTimetableEntries(location, Head(tripTimetables).route,
                             Head(tripTimetables).tripName,
                             Head(tripTimetables).timetable)
         \o forTripTimetables(location, Tail(tripTimetables))

RECURSIVE forTimetables(_, _)
forTimetables(location, timetables) ==
    IF timetables = <<>> THEN <<>>
    ELSE forTripTimetables(location, Head(timetables).tripTimetables)
         \o forTimetables(location, Tail(timetables))

\* The loop over the stations run from the last station to the first.
RECURSIVE forStationsReversed(_)
forStationsReversed(stationDetails) ==
    IF stationDetails = <<>> THEN <<>>
    ELSE forStationsReversed(Tail(stationDetails))
         \o forTimetables(clone(Head(stationDetails).location),
                          Head(stationDetails).timetables)

RECURSIVE forStations(_)
forStations(stationDetails) ==
    IF stationDetails = <<>> THEN <<>>
    ELSE forTimetables(clone(Head(stationDetails).location),
                       Head(stationDetails).timetables)
         \o forStations(Tail(stationDetails))

\* The Map never finding a key: every entry opens a batch of its own.
RECURSIVE coalesceNever(_, _)
coalesceNever(entries, map) ==
    IF entries = <<>> THEN map
    ELSE LET e == Head(entries)
         IN  coalesceNever(Tail(entries),
                           Append(map, [key |-> <<e.hour, e.minute>>,
                                        value |-> ArrivalSet(TimeOfDay(e.hour, e.minute),
                                                             <<e.arrival>>)]))

\* The Map keyed by `${hour}:${minute}`, kept in insertion order as a
\* sequence of [key, value].
RECURSIVE coalesce(_, _)
coalesce(entries, map) ==
    IF entries = <<>> THEN map
    ELSE LET e == Head(entries)
             mapKey == <<e.hour, e.minute>>
             hit == {i \in 1..Len(map) : map[i].key = mapKey}
         IN  IF hit # {}
             THEN LET i == CHOOSE j \in hit : TRUE
                  IN  coalesce(Tail(entries),
                               [map EXCEPT ![i].value.arrivals = Append(@, e.arrival)])
             ELSE coalesce(Tail(entries),
                           Append(map, [key |-> mapKey,
                                        value |-> ArrivalSet(TimeOfDay(e.hour, e.minute),
                                                             <<e.arrival>>)]))

\* Array.from(optimizedArrivals).map(([_, value]) => value)
RECURSIVE mapValues(_)
mapValues(map) ==
    IF map = <<>> THEN <<>> ELSE <<Head(map).value>> \o mapValues(Tail(map))

generateOptimizedArrivals(snapshot) ==
    sortArrivalSetArray(mapValues(coalesce(forStations(snapshot), <<>>)))

\* The filter keeping a batch timed exactly at the clock (< for <=).
keepArrivalSetAtClock(timeOfDay, arrivalSet) ==
    IF arrivalSet.time.hour < timeOfDay.hour THEN FALSE
    ELSE IF arrivalSet.time.hour = timeOfDay.hour
            /\ arrivalSet.time.minute < timeOfDay.minute THEN FALSE
    ELSE TRUE

keepArrivalSet(timeOfDay, arrivalSet) ==
    IF arrivalSet.time.hour < timeOfDay.hour THEN FALSE
    ELSE IF arrivalSet.time.hour = timeOfDay.hour
            /\ arrivalSet.time.minute <= timeOfDay.minute THEN FALSE
    ELSE TRUE

cutArrivalSetsBeforeOrAtTime(timeOfDay, sets) ==
    LET keep(arrivalSet) == keepArrivalSet(timeOfDay, arrivalSet)
    IN  SelectSeq(sets, keep)

-----------------------------------------------------------------------------
(* stationSearcher.ts.  A station is referred to by its place in the list     *)
(* stationDetails of the snapshot.                                            *)

\* null: apart from every distance and from every station.
Null == -1

\* null where a [distance, station] pair or a LatLng is expected.
NullObject == <<>>

\* Greater than every distance.
Infinity == 1000000

\* One [location, station] pair per station, in snapshot order.
generateOptimizedStations(snapshot) ==
    [i \in DOMAIN snapshot |-> <<snapshot[i].location, i>>]

\* new StationSearcher(snapshot)
StationSearcher(snapshot) ==
    [stationsSnapshot |-> snapshot,
     optimizedStationsPerLocation |-> generateOptimizedStations(snapshot)]

\* closestDistance || Infinity treating 0 as a distance.
orInfinityIfNull(closestDistance) ==
    IF closestDistance = Null THEN Infinity ELSE closestDistance

\* closestDistance || Infinity: null and 0 are both falsy.
orInfinity(closestDistance) ==
    IF closestDistance = Null \/ closestDistance = 0 THEN Infinity ELSE closestDistance

\* The loop of getClosestStation from pair number next on.
RECURSIVE closestFrom(_, _, _, _, _)
closestFrom(pairs, next, targetLocation_, closestStation, closestDistance) ==
    IF next > Len(pairs) THEN <<closestDistance, closestStation>>
    ELSE LET location == pairs[next][1]
             station == pairs[next][2]
             distanceToTarget == distanceToLeafetLatLng(location, targetLocation_)
         IN  IF closestStation = Null
                \/ distanceToTarget < orInfinity(closestDistance)
             THEN closestFrom(pairs, next + 1, targetLocation_, station, distanceToTarget)
             ELSE closestFrom(pairs, next + 1, targetLocation_,
                              closestStation, closestDistance)

getClosestStation(self, targetLocation_) ==
    LET found == closestFrom(self.optimizedStationsPerLocation, 1, targetLocation_,
                             Null, Null)
        closestDistance == found[1]
        closestStation == found[2]
    IN  IF closestStation = Null \/ closestDistance = Null THEN NullObject
        ELSE <<closestDistance, closestStation>>

-----------------------------------------------------------------------------
(* replayer.ts: BusArrivalPlayback.tick *)

\* The drain test looking at the hour only.
isDueHourOnly(nextArrivalSet, hour, minute) ==
    nextArrivalSet.time.hour <= hour

\* The test of the drain loop.
isDue(nextArrivalSet, hour, minute) ==
    nextArrivalSet.time.hour <= hour /\ nextArrivalSet.time.minute <= minute

\* Number of iterations of the drain loop that shift the queue.
RECURSIVE drainCount(_, _, _)
drainCount(queue, hour, minute) ==
    IF queue = <<>> THEN 0
    ELSE IF isDue(Head(queue), hour, minute)
         THEN 1 + drainCount(Tail(queue), hour, minute)
         ELSE 0

\* tick without the reload.
reloadNever(queue, timeOfDay, snapshot) == queue

\* The reload that ends tick.
reloadIfEmpty(queue, timeOfDay, snapshot) ==
    IF Len(queue) = 0
    THEN cutArrivalSetsBeforeOrAtTime(timeOfDay, generateOptimizedArrivals(snapshot))
    ELSE queue

-----------------------------------------------------------------------------
(* Station snapshots the engine is built from.  A snapshot is the list        *)
(* AllStationsSnapshot.stationDetails; a station keeps its location and its   *)
(* timetables, a timetable its tripTimetables, a trip its route, tripName and *)
(* timetable entries (sorted, as TripTimetable.fromRawData leaves them).      *)

Entry(hour, minute) == [hour |-> hour, minute |-> minute]

Trip(route, tripName, timetable) ==
    [route |-> route, tripName |-> tripName, timetable |-> timetable]

Station(location, trips) ==
    [location |-> location, timetables |-> <<[tripTimetables |-> trips]>>]

\* Batches on both sides of an hour boundary and in the last hour of the day.
SnapshotEvening ==
    << Station(GeographicalLocation(0, 0),
               << Trip("6", "Dolgi most", <<Entry(5, 50), Entry(6, 5), Entry(24, 50)>>) >>),
       Station(GeographicalLocation(0, 1),
               << Trip("1", "Vizmarje", <<Entry(6, 5)>>) >>) >>

\* A batch in the first minute of the day and three batches close together.
SnapshotMorning ==
    << Station(GeographicalLocation(1, 0),
               << Trip("2", "Nove Jarse", <<Entry(1, 0), Entry(4, 10), Entry(4, 11)>>),
                  Trip("9", "Stepanjsko naselje", <<Entry(4, 14), Entry(23, 30)>>) >>) >>

\* One station with one entry.
SnapshotSingle ==
    << Station(GeographicalLocation(1, 1), << Trip("3", "Rudnik", <<Entry(5, 0)>>) >>) >>

\* No stations at all.
SnapshotEmpty == << >>

\* The second station's trip starts before the first station's, inside the
\* same hour, and both stop at 8:15; one trip has the same entry twice.
SnapshotCrossing ==
    << Station(GeographicalLocation(0, 0),
               << Trip("6", "Dolgi most", <<Entry(8, 15), Entry(8, 40), Entry(8, 40)>>) >>),
       Station(GeographicalLocation(0, 1),
               << Trip("1", "Vizmarje", <<Entry(8, 5), Entry(8, 15)>>),
                  Trip("1", "Mestni log", <<Entry(7, 55)>>) >>) >>

\* A batch in the last minutes of the day, and two batches close together.
SnapshotNight ==
    << Station(GeographicalLocation(1, 1),
               << Trip("3", "Rudnik", <<Entry(3, 31), Entry(3, 33), Entry(24, 58)>>) >>) >>

Snapshots ==
    {SnapshotEvening, SnapshotMorning, SnapshotSingle, SnapshotEmpty, SnapshotCrossing}

\* main.ts starts the simulation at 3:30; the engine takes any start time.
InitialTimes == {TimeOfDay(3, 30), TimeOfDay(4, 59), TimeOfDay(24, 50)}

\* Tick sizes of the engine, each shorter than a day.
Deltas == (0..MaxSmallDelta) \cup {LongDelta, MinutesPerHour + 1, MinutesPerDay - 1}

\* Tick sizes of a free-standing clock, up to several days.
ClockDeltas == Deltas \cup {MinutesPerDay, MaxDays * MinutesPerDay + 1}

\* Arguments of the TimeOfDay constructor and of resetTimeTo: around both ends
\* of the valid range, and one value inside it.
HourInputs ==
    ((MinHour - InputSlack)..(MinHour + 1)) \cup {12}
        \cup ((MaxHour - 1)..(MaxHour + InputSlack))
MinuteInputs ==
    ((MinMinute - InputSlack)..(MinMinute + 1)) \cup {30}
        \cup ((MaxMinute - 1)..(MaxMinute + InputSlack))

\* Times a clock is asked about with elapsedSince: the first, a middle and
\* the last hour of the day, each with an early, a middle and two late minutes.
PreceedingTimes ==
    {TimeOfDay(hour, minute) : hour \in {MinHour, 12, MaxHour},
                               minute \in {MinMinute, 30, 50, MaxMinute}}

-----------------------------------------------------------------------------
(* Helpers of the properties. *)

\* Minutes since the start of the service day.
minuteOfDay(time) == (time.hour - MinHour) * MinutesPerHour + time.minute

\* Chronological order inside one service day: hour first, then minute.
atOrBefore(a, b) == a.hour < b.hour \/ (a.hour = b.hour /\ a.minute <= b.minute)
strictlyAfter(a, b) == ~atOrBefore(a, b)

timesOf(sets) == {sets[i].time : i \in DOMAIN sets}

-----------------------------------------------------------------------------
(* BusArrivalPlayback *)

\* new BusArrivalPlayback(stationsSnapshot, initialSimulationTime)
construct(snapshot, initialSimulationTime) ==
    /\ currentDayTime = initialSimulationTime
    /\ stationsSnapshot = snapshot
    /\ optimizedArrivals =
           cutArrivalSetsBeforeOrAtTime(initialSimulationTime,
                                        generateOptimizedArrivals(snapshot))

\* playback.tick(delta)
tick(delta) ==
    LET time == TimeOfDay_tick(currentDayTime, delta)
        count == drainCount(optimizedArrivals, time.hour, time.minute)
        drained == SubSeq(optimizedArrivals, 1, count)
        rest == SubSeq(optimizedArrivals, count + 1, Len(optimizedArrivals))
        wrapped == minuteOfDay(time) < minuteOfDay(currentDayTime)
        today == IF wrapped THEN [seen |-> {}, again |-> {}] ELSE returnedToday
    IN  /\ currentDayTime' = time
        /\ arrivalSets' = drained
        /\ optimizedArrivals' = reloadIfEmpty(rest, time, stationsSnapshot)
        /\ lastOp' = "tick"
        /\ minutes' = delta
        /\ timeBefore' = currentDayTime
        /\ arrivalsBefore' = optimizedArrivals
        /\ drainedEmpty' = (rest = <<>>)
        /\ returnedToday' = [seen |-> today.seen \cup timesOf(drained),
                             again |-> today.again \cup (today.seen \cap timesOf(drained))]
        /\ UNCHANGED stationsSnapshot

EngineInit ==
    /\ \E snapshot \in Snapshots, time \in InitialTimes : construct(snapshot, time)
    /\ arrivalSets = <<>>
    /\ lastOp = "construct"
    /\ minutes = 0
    /\ timeBefore = currentDayTime
    /\ arrivalsBefore = optimizedArrivals
    /\ drainedEmpty = FALSE
    /\ returnedToday = [seen |-> {}, again |-> {}]

ClockIdle ==
    /\ tod = TimeOfDay(MinHour, MinMinute)
    /\ todOp = "construct"
    /\ todArgs = <<MinHour, MinMinute>>
    /\ todBefore = tod
    /\ todResult = NoResult

\* No station searcher in use.
SearchIdle ==
    /\ stationSearcher = StationSearcher(SnapshotEmpty)
    /\ targetLocation = NullObject
    /\ closestStationData = NoResult

\* main.ts not running.
UIIdle ==
    /\ selectedStationSnapshotIndex = 0
    /\ selectedStationSnapshot = SnapshotEmpty
    /\ activeDroplets = <<>>
    /\ isSimulationPaused = FALSE
    /\ drawFailed = FALSE
    /\ isFastForwarding = FALSE
    /\ currentRealTimeSecondsPerSimulatedMinute = 0
    /\ lastDrawAge = 0
    /\ currentStationPopup = NullObject
    /\ uiOp = "none"
    /\ uiArgs = <<>>
    /\ uiBefore = <<>>

\* No document fetched.
LoadIdle ==
    /\ jsonData = NullObject
    /\ loadResult = NoResult

\* No TimeOfDay.tick call followed step by step.
StepIdle ==
    /\ tickSelf = NullObject
    /\ tickArg = NullObject
    /\ tickPc = "none"

\* The page's start-up not followed.
StartIdle ==
    /\ startPhase = "none"
    /\ stationSnapshotsLoaded = 0
    /\ unsetRead = {}

AuxIdle == LoadIdle /\ StepIdle /\ StartIdle

Init == EngineInit /\ ClockIdle /\ SearchIdle /\ UIIdle /\ AuxIdle

Tick == \E delta \in Deltas : tick(delta) /\ UNCHANGED <<clockVars, searchVars, uiVars, auxVars>>

Next == Tick

Spec == Init /\ [][Next]_vars

\* The render loop calls tick on every frame, with a positive delta.
PositiveTick == \E delta \in Deltas \ {0} : tick(delta) /\ UNCHANGED <<clockVars, searchVars, uiVars, auxVars>>

\* The frame loop never stops: the clock keeps advancing.  Every PositiveTick
\* step advances the clock and PositiveTick is always enabled, so weak fairness
\* of the clock advance is weak fairness of PositiveTick.
AllTimes == [hour : MinHour..MaxHour, minute : MinMinute..MaxMinute]

ClockAdvances ==
    \E time \in AllTimes : time # currentDayTime /\ currentDayTime' = time

SpecLive == Init /\ [][PositiveTick]_vars /\ WF_currentDayTime(ClockAdvances)

-----------------------------------------------------------------------------
(* A TimeOfDay on its own: construction, resetTimeTo and tick. *)

EngineIdle ==
    /\ construct(SnapshotSingle, TimeOfDay(3, 30))
    /\ arrivalSets = <<>>
    /\ lastOp = "construct"
    /\ minutes = 0
    /\ timeBefore = currentDayTime
    /\ arrivalsBefore = optimizedArrivals
    /\ drainedEmpty = FALSE
    /\ returnedToday = [seen |-> {}, again |-> {}]

ClockInit ==
    /\ \E hour \in HourInputs, minute \in MinuteInputs :
          /\ tod = TimeOfDay(hour, minute)
          /\ todArgs = <<hour, minute>>
    /\ todOp = "construct"
    /\ todBefore = tod
    /\ todResult = NoResult

ClockReset ==
    /\ \E hour \in HourInputs, minute \in MinuteInputs :
          /\ tod' = resetTimeTo(tod, hour, minute)
          /\ todArgs' = <<hour, minute>>
    /\ todOp' = "reset"
    /\ todBefore' = tod'
    /\ todResult' = NoResult
    /\ UNCHANGED <<engineVars, searchVars, uiVars, auxVars>>

ClockTick ==
    /\ \E delta \in ClockDeltas :
          /\ tod' = TimeOfDay_tick(tod, delta)
          /\ todArgs' = <<delta>>
    /\ todOp' = "tick"
    /\ todBefore' = tod
    /\ todResult' = NoResult
    /\ UNCHANGED <<engineVars, searchVars, uiVars, auxVars>>

\* tod.elapsedSince(preceedingTime): the method assigns to neither object.
ClockElapsedSince ==
    /\ \E preceedingTime \in PreceedingTimes :
          /\ todResult' = elapsedSince(tod, preceedingTime)
          /\ todArgs' = <<preceedingTime>>
    /\ todOp' = "elapsedSince"
    /\ todBefore' = tod
    /\ UNCHANGED tod
    /\ UNCHANGED <<engineVars, searchVars, uiVars, auxVars>>

NextClock == ClockReset \/ ClockTick \/ ClockElapsedSince

InitClock == EngineIdle /\ ClockInit /\ SearchIdle /\ UIIdle /\ AuxIdle

SpecClock == InitClock /\ [][NextClock]_vars

-----------------------------------------------------------------------------
(* A StationSearcher on its own: construction and getClosestStation. *)

\* The points of the grid.
Grid == 0..MaxCoordinate

\* Lists of up to MaxStations stations standing on points of the grid, two or
\* more of them on the same point included.
RECURSIVE StationLists(_)
StationLists(length) ==
    IF length = 0 THEN {<<>>}
    ELSE StationLists(length - 1)
         \cup {Append(list, Station(GeographicalLocation(latitude, longitude), <<>>)) :
                   list \in {l \in StationLists(length - 1) : Len(l) = length - 1},
                   latitude \in Grid, longitude \in Grid}

SearchInit ==
    /\ \E snapshot \in StationLists(MaxStations) :
          stationSearcher = StationSearcher(snapshot)
    /\ targetLocation = NullObject
    /\ closestStationData = NoResult

\* stationSearcher.getClosestStation(targetLocation)
Search ==
    /\ \E lat \in Grid, lng \in Grid :
          /\ targetLocation' = LatLng(lat, lng)
          /\ closestStationData' =
                 Returned(getClosestStation(stationSearcher, LatLng(lat, lng)))
    /\ UNCHANGED stationSearcher
    /\ UNCHANGED <<engineVars, clockVars, uiVars, auxVars>>

NextSearch == Search

InitSearch == EngineIdle /\ ClockIdle /\ SearchInit /\ UIIdle /\ AuxIdle

SpecSearch == InitSearch /\ [][NextSearch]_vars

-----------------------------------------------------------------------------
(* main.ts: the sketch.  Init is the state p.setup leaves; a step is a call   *)
(* of p.draw or a keyboard or button event.                                   *)

\* The snapshots loaded at start-up, one per captured day.
availableStationSnapshots == <<SnapshotEvening, SnapshotCrossing, SnapshotNight>>

initialSimulationTime == TimeOfDay(3, 30)

\* 5.8 simulated minutes, in tenths of a minute.
dropletLifetimeInSimulatedTenths == 58

\* Simulated minutes of one frame at normal speed: drawTimeDelta divided by
\* realTimeSecondsPerSimulatedMinute.
FrameDeltas == {1, MaxSmallDelta, LongDelta}

\* Wall time is counted in units of 1 / (2.7 * 8) seconds, the time of one
\* simulated minute when fast-forwarding.
fastForwardedRealTimeSecondsPerSimulatedMinute == 1

realTimeSecondsPerSimulatedMinute == 8

\* Wall time between two calls of p.draw.
FrameIntervals == {delta * realTimeSecondsPerSimulatedMinute : delta \in FrameDeltas}

\* Where the canvas is clicked.
ClickTargets == {LatLng(0, 0), LatLng(1, 1)}

StationPopup(popupAnchorLocation) == [popupAnchorLocation |-> popupAnchorLocation]

Droplet(initializationTime_, location) ==
    [initializationTime |-> initializationTime_,
     location |-> LatLng(location.latitude, location.longitude)]

timeSinceInitialization(droplet, currentTime) ==
    elapsedSince(currentTime, droplet.initializationTime)

\* Droplet.hasFinished: a truth value, or the error of elapsedSince.
hasFinished(droplet, currentTime) ==
    LET since == timeSinceInitialization(droplet, currentTime)
    IN  IF since.threw THEN Thrown
        ELSE Returned(since.value * 10 >= dropletLifetimeInSimulatedTenths)

\* One droplet per arrival of a batch.
RECURSIVE dropletsOfArrivals(_, _)
dropletsOfArrivals(arrivalTime, arrivals) ==
    IF arrivals = <<>> THEN <<>>
    ELSE <<Droplet(arrivalTime, Head(arrivals).location)>>
         \o dropletsOfArrivals(arrivalTime, Tail(arrivals))

\* One droplet per arrival of every fresh batch, in order.
RECURSIVE dropletsOf(_)
dropletsOf(freshArrivalSets) ==
    IF freshArrivalSets = <<>> THEN <<>>
    ELSE dropletsOfArrivals(Head(freshArrivalSets).time, Head(freshArrivalSets).arrivals)
         \o dropletsOf(Tail(freshArrivalSets))

\* Some call of elapsedSince made for these droplets throws.
anyThrows(droplets, currentTime) ==
    \E i \in DOMAIN droplets : hasFinished(droplets[i], currentTime).threw

\* activeDroplets.filter(droplet => !droplet.hasFinished(...)), no call throwing.
unfinished(droplets, currentTime) ==
    LET alive(droplet) == ~hasFinished(droplet, currentTime).value
    IN  SelectSeq(droplets, alive)

\* new BusArrivalPlayback(snapshot, time), replacing the engine in use.
newPlayback(snapshot, time) ==
    /\ stationsSnapshot' = snapshot
    /\ currentDayTime' = time
    /\ optimizedArrivals' =
           cutArrivalSetsBeforeOrAtTime(time, generateOptimizedArrivals(snapshot))
    /\ arrivalSets' = <<>>
    /\ lastOp' = "construct"
    /\ minutes' = 0
    /\ timeBefore' = time
    /\ arrivalsBefore' = optimizedArrivals'
    /\ drainedEmpty' = FALSE
    /\ returnedToday' = [seen |-> {}, again |-> {}]

\* What the history variable uiBefore keeps of the state a step is entered in.
entered ==
    [currentDayTime |-> currentDayTime,
     activeDroplets |-> activeDroplets,
     selectedStationSnapshotIndex |-> selectedStationSnapshotIndex,
     isSimulationPaused |-> isSimulationPaused,
     isFastForwarding |-> isFastForwarding,
     currentRealTimeSecondsPerSimulatedMinute |->
         currentRealTimeSecondsPerSimulatedMinute]

\* The part of the sketch state that the speed switch and the popup make up.
controlVars == <<isFastForwarding, currentRealTimeSecondsPerSimulatedMinute,
                 currentStationPopup>>

\* selectStationSnapshot leaving the droplets on the map.
selectStationSnapshotKeepDroplets(snapshotIndex) ==
    /\ snapshotIndex \in 0..(Len(availableStationSnapshots) - 1)
    /\ selectedStationSnapshotIndex' = snapshotIndex
    /\ selectedStationSnapshot' = availableStationSnapshots[snapshotIndex + 1]
    /\ newPlayback(availableStationSnapshots[snapshotIndex + 1],
                   TimeOfDay_clone(initialSimulationTime))
    /\ stationSearcher' = StationSearcher(availableStationSnapshots[snapshotIndex + 1])
    /\ UNCHANGED activeDroplets
    /\ uiOp' = "select"
    /\ uiArgs' = <<snapshotIndex>>
    /\ uiBefore' = entered
    /\ UNCHANGED <<isSimulationPaused, drawFailed, targetLocation, closestStationData>>
    /\ UNCHANGED <<controlVars, lastDrawAge>>
    /\ UNCHANGED <<clockVars, auxVars>>

\* selectStationSnapshot keeping the searcher of the snapshot shown before.
selectStationSnapshotKeepSearcher(snapshotIndex) ==
    /\ snapshotIndex \in 0..(Len(availableStationSnapshots) - 1)
    /\ selectedStationSnapshotIndex' = snapshotIndex
    /\ selectedStationSnapshot' = availableStationSnapshots[snapshotIndex + 1]
    /\ newPlayback(availableStationSnapshots[snapshotIndex + 1],
                   TimeOfDay_clone(initialSimulationTime))
    /\ UNCHANGED stationSearcher
    /\ activeDroplets' = <<>>
    /\ uiOp' = "select"
    /\ uiArgs' = <<snapshotIndex>>
    /\ uiBefore' = entered
    /\ UNCHANGED <<isSimulationPaused, drawFailed, targetLocation, closestStationData>>
    /\ UNCHANGED <<controlVars, lastDrawAge>>
    /\ UNCHANGED <<clockVars, auxVars>>

\* selectStationSnapshot(snapshotIndex); an index outside the list throws
\* before anything is assigned.
selectStationSnapshot(snapshotIndex) ==
    /\ snapshotIndex \in 0..(Len(availableStationSnapshots) - 1)
    /\ selectedStationSnapshotIndex' = snapshotIndex
    /\ selectedStationSnapshot' = availableStationSnapshots[snapshotIndex + 1]
    /\ newPlayback(availableStationSnapshots[snapshotIndex + 1],
                   TimeOfDay_clone(initialSimulationTime))
    /\ stationSearcher' = StationSearcher(availableStationSnapshots[snapshotIndex + 1])
    /\ activeDroplets' = <<>>
    /\ uiOp' = "select"
    /\ uiArgs' = <<snapshotIndex>>
    /\ uiBefore' = entered
    /\ UNCHANGED <<isSimulationPaused, drawFailed, targetLocation, closestStationData>>
    /\ UNCHANGED <<controlVars, lastDrawAge>>
    /\ UNCHANGED <<clockVars, auxVars>>

goToPreviousDay ==
    LET targetSnapshotIndex == selectedStationSnapshotIndex - 1
    IN  IF targetSnapshotIndex < 0
        THEN selectStationSnapshot(Len(availableStationSnapshots) - 1)
        ELSE selectStationSnapshot(targetSnapshotIndex)

\* goToNextDay staying on the last snapshot.
goToNextDayNoWrap ==
    LET targetSnapshotIndex == selectedStationSnapshotIndex + 1
    IN  IF targetSnapshotIndex > Len(availableStationSnapshots) - 1
        THEN selectStationSnapshot(Len(availableStationSnapshots) - 1)
        ELSE selectStationSnapshot(targetSnapshotIndex)

goToNextDay ==
    LET targetSnapshotIndex == selectedStationSnapshotIndex + 1
    IN  IF targetSnapshotIndex > Len(availableStationSnapshots) - 1
        THEN selectStationSnapshot(0)
        ELSE selectStationSnapshot(targetSnapshotIndex)

resetDay == selectStationSnapshot(selectedStationSnapshotIndex)

toggleSimulationPause ==
    /\ isSimulationPaused' = ~isSimulationPaused
    /\ uiOp' = "pause"
    /\ uiArgs' = <<>>
    /\ uiBefore' = entered
    /\ UNCHANGED <<selectedStationSnapshotIndex, selectedStationSnapshot,
                   activeDroplets, drawFailed, controlVars, lastDrawAge>>
    /\ UNCHANGED <<engineVars, clockVars, searchVars, auxVars>>

\* toggleFastForwardSimulation leaving the ratio alone when switching off.
toggleFastForwardKeepingRatio ==
    /\ IF ~isFastForwarding
       THEN /\ currentRealTimeSecondsPerSimulatedMinute' =
                   fastForwardedRealTimeSecondsPerSimulatedMinute
            /\ isFastForwarding' = TRUE
       ELSE /\ UNCHANGED currentRealTimeSecondsPerSimulatedMinute
            /\ isFastForwarding' = FALSE
    /\ uiOp' = "fastForward"
    /\ uiArgs' = <<>>
    /\ uiBefore' = entered
    /\ UNCHANGED <<selectedStationSnapshotIndex, selectedStationSnapshot,
                   activeDroplets, isSimulationPaused, drawFailed,
                   currentStationPopup, lastDrawAge>>
    /\ UNCHANGED <<engineVars, clockVars, searchVars, auxVars>>

toggleFastForwardSimulation ==
    /\ IF ~isFastForwarding
       THEN /\ currentRealTimeSecondsPerSimulatedMinute' =
                   fastForwardedRealTimeSecondsPerSimulatedMinute
            /\ isFastForwarding' = TRUE
       ELSE /\ currentRealTimeSecondsPerSimulatedMinute' =
                   realTimeSecondsPerSimulatedMinute
            /\ isFastForwarding' = FALSE
    /\ uiOp' = "fastForward"
    /\ uiArgs' = <<>>
    /\ uiBefore' = entered
    /\ UNCHANGED <<selectedStationSnapshotIndex, selectedStationSnapshot,
                   activeDroplets, isSimulationPaused, drawFailed,
                   currentStationPopup, lastDrawAge>>
    /\ UNCHANGED <<engineVars, clockVars, searchVars, auxVars>>

\* handleCanvasClick.  The checkbox is the user's; where the station lies on
\* the screen, and so whether the click is within the tolerance, is the map's.
handleCanvasClick ==
    /\ \E checked \in BOOLEAN, latLngOfClick \in ClickTargets, near \in BOOLEAN :
          LET closestStationData_ == getClosestStation(stationSearcher, latLngOfClick)
              closestStation ==
                  stationSearcher.stationsSnapshot[closestStationData_[2]]
          IN  /\ currentStationPopup' =
                     IF ~checked THEN currentStationPopup
                     ELSE IF closestStationData_ = NullObject \/ ~near THEN NullObject
                     ELSE StationPopup(LatLng(closestStation.location.latitude,
                                              closestStation.location.longitude))
              /\ uiArgs' = <<checked, latLngOfClick, near>>
    /\ uiOp' = "click"
    /\ uiBefore' = entered
    /\ UNCHANGED <<selectedStationSnapshotIndex, selectedStationSnapshot,
                   activeDroplets, isSimulationPaused, drawFailed,
                   isFastForwarding, currentRealTimeSecondsPerSimulatedMinute,
                   lastDrawAge>>
    /\ UNCHANGED <<engineVars, clockVars, searchVars, auxVars>>

\* updateDroplets(timeDeltaSinceLastDraw) followed by drawDroplets, in a frame
\* drawn while the simulation runs.  The droplets are pushed onto the array
\* in place; an error thrown by the filter leaves them there.
updateAndDrawDroplets(delta) ==
    /\ tick(delta)
    /\ LET pushed == activeDroplets \o dropletsOf(arrivalSets')
       IN  IF anyThrows(pushed, currentDayTime')
           THEN /\ activeDroplets' = pushed
                /\ drawFailed' = TRUE
           ELSE /\ activeDroplets' = unfinished(pushed, currentDayTime')
                /\ drawFailed' = anyThrows(activeDroplets', currentDayTime')

\* drawDroplets in a frame drawn while the simulation is paused.
drawDroplets ==
    /\ drawFailed' = anyThrows(activeDroplets, currentDayTime)
    /\ UNCHANGED <<engineVars, activeDroplets>>

\* A frame drawn while the simulation is paused that leaves lastDrawTime alone.
pausedFrameKeepingLastDrawTime(interval) ==
    /\ drawDroplets
    /\ lastDrawAge' = lastDrawAge + interval

\* p.draw while the simulation is paused, `interval` after the frame before:
\* the droplets are drawn and lastDrawTime is set.
pausedFrame(interval) ==
    /\ drawDroplets
    /\ lastDrawAge' = IF drawFailed' THEN lastDrawAge + interval ELSE 0

\* p.draw while the simulation runs: updateDroplets(drawTimeDelta), then as
\* when paused.
runningFrame(interval) ==
    LET drawTimeDelta == lastDrawAge + interval
    IN  /\ updateAndDrawDroplets(drawTimeDelta
                                     \div currentRealTimeSecondsPerSimulatedMinute)
        /\ lastDrawAge' = IF drawFailed' THEN drawTimeDelta ELSE 0

\* p.draw, with the arrivals shown, `interval` after the frame before.  An
\* uncaught error ends the draw loop.
frame(interval) ==
    /\ ~drawFailed
    /\ IF ~isSimulationPaused THEN runningFrame(interval) ELSE pausedFrame(interval)
    /\ uiArgs' = IF ~isSimulationPaused THEN <<interval>> ELSE <<>>
    /\ uiOp' = "draw"
    /\ uiBefore' = entered
    /\ UNCHANGED <<selectedStationSnapshotIndex, selectedStationSnapshot,
                   isSimulationPaused, controlVars>>
    /\ UNCHANGED <<clockVars, searchVars, auxVars>>

draw == \E interval \in FrameIntervals : frame(interval)

\* Simulated minutes between two frames of a browser tab that is drawn
\* rarely.
SparseFrameDelta == 100

\* p.draw every SparseFrameDelta simulated minutes at normal speed.
drawSparsely == frame(SparseFrameDelta * realTimeSecondsPerSimulatedMinute)

\* p.setup: selectStationSnapshot(0)
InitUI ==
    /\ construct(availableStationSnapshots[1], TimeOfDay_clone(initialSimulationTime))
    /\ arrivalSets = <<>>
    /\ lastOp = "construct"
    /\ minutes = 0
    /\ timeBefore = currentDayTime
    /\ arrivalsBefore = optimizedArrivals
    /\ drainedEmpty = FALSE
    /\ returnedToday = [seen |-> {}, again |-> {}]
    /\ tod = TimeOfDay(MinHour, MinMinute)
    /\ todOp = "construct"
    /\ todArgs = <<MinHour, MinMinute>>
    /\ todBefore = tod
    /\ todResult = NoResult
    /\ stationSearcher = StationSearcher(availableStationSnapshots[1])
    /\ targetLocation = NullObject
    /\ closestStationData = NoResult
    /\ selectedStationSnapshotIndex = 0
    /\ selectedStationSnapshot = availableStationSnapshots[1]
    /\ activeDroplets = <<>>
    /\ isSimulationPaused = FALSE
    /\ drawFailed = FALSE
    /\ isFastForwarding = FALSE
    /\ currentRealTimeSecondsPerSimulatedMinute = realTimeSecondsPerSimulatedMinute
    /\ lastDrawAge = 0
    /\ currentStationPopup = NullObject
    /\ uiOp = "select"
    /\ uiArgs = <<0>>
    /\ uiBefore = [currentDayTime |-> initialSimulationTime,
                   activeDroplets |-> <<>>,
                   selectedStationSnapshotIndex |-> 0,
                   isSimulationPaused |-> FALSE,
                   isFastForwarding |-> FALSE,
                   currentRealTimeSecondsPerSimulatedMinute |->
                       realTimeSecondsPerSimulatedMinute]
    /\ AuxIdle

NextUI ==
    \/ draw
    \/ toggleSimulationPause
    \/ goToPreviousDay
    \/ goToNextDay
    \/ resetDay

SpecUI == InitUI /\ [][NextUI]_vars

\* The sketch with all its controls, drawn every SparseFrameDelta minutes.
NextControls ==
    \/ drawSparsely
    \/ toggleSimulationPause
    \/ toggleFastForwardSimulation
    \/ goToPreviousDay
    \/ goToNextDay
    \/ resetDay
    \/ handleCanvasClick

SpecControls == InitUI /\ [][NextControls]_vars

-----------------------------------------------------------------------------
(* lpp/index.ts: a snapshot built from its JSON document. *)

ResponseContentError == [threw |-> TRUE, error |-> "ResponseContentError"]

getRequiredField(payload, field_name) ==
    IF field_name \in DOMAIN payload THEN Returned(payload[field_name])
    ELSE ResponseContentError

\* for (const raw of list) { array.push(X.fromRawData(raw)) }: the first
\* element that throws ends the loop and the function around it.
pushEach(results) ==
    IF \E i \in DOMAIN results : results[i].threw THEN ResponseContentError
    ELSE Returned([i \in DOMAIN results |-> results[i].value])

getOptionalField(payload, field_name, fallback_value) ==
    IF field_name \in DOMAIN payload THEN Returned(payload[field_name])
    ELSE Returned(fallback_value)

\* TimetableEntry.fromRawData reading its fields as optional ones.
TimetableEntry_fromOptionalFields(rawData) ==
    Returned(Entry(getOptionalField(rawData, "hour", 0).value,
                   getOptionalField(rawData, "minute", 0).value))

TimetableEntry_fromRawData(rawData) ==
    LET hour == getRequiredField(rawData, "hour")
        minute == getRequiredField(rawData, "minute")
    IN  IF hour.threw \/ minute.threw THEN ResponseContentError
        ELSE Returned(Entry(hour.value, minute.value))

StationOnTimetable_fromRawData(rawData) ==
    LET stationCode == getRequiredField(rawData, "station_code")
        name == getRequiredField(rawData, "name")
        stopNumber == getRequiredField(rawData, "stop_number")
    IN  IF stationCode.threw \/ name.threw \/ stopNumber.threw
        THEN ResponseContentError
        ELSE Returned([stationCode |-> stationCode.value, name |-> name.value,
                       stopNumber |-> stopNumber.value])

\* The comparator of sortTimetableEntriesByTime looking at the hours only.
compareEntryHours(first, second) == first.hour - second.hour

compareTimetableEntries(first, second) ==
    IF first.hour = second.hour
    THEN first.minute - second.minute
    ELSE first.hour - second.hour

RECURSIVE insertEntry(_, _)
insertEntry(sorted, entry) ==
    IF sorted = <<>> THEN <<entry>>
    ELSE IF compareTimetableEntries(Head(sorted), entry) <= 0
         THEN <<Head(sorted)>> \o insertEntry(Tail(sorted), entry)
         ELSE <<entry>> \o sorted

RECURSIVE sortTimetableEntriesByTime(_)
sortTimetableEntriesByTime(entries) ==
    IF entries = <<>> THEN <<>>
    ELSE insertEntry(sortTimetableEntriesByTime(SubSeq(entries, 1, Len(entries) - 1)),
                     entries[Len(entries)])

TripTimetable_fromRawData(rawData) ==
    LET route == getRequiredField(rawData, "route")
        tripName == getRequiredField(rawData, "trip_name")
        shortTripName == getRequiredField(rawData, "short_trip_name")
        endsInGarage == getRequiredField(rawData, "ends_in_garage")
        rawTimetable == getRequiredField(rawData, "timetable")
        rawStations == getRequiredField(rawData, "stations")
    IN  IF \/ route.threw \/ tripName.threw \/ shortTripName.threw
           \/ endsInGarage.threw \/ rawTimetable.threw
        THEN ResponseContentError
        ELSE LET timetable ==
                     pushEach([i \in DOMAIN rawTimetable.value |->
                                  TimetableEntry_fromRawData(rawTimetable.value[i])])
             IN  IF timetable.threw \/ rawStations.threw THEN ResponseContentError
                 ELSE LET stations ==
                              pushEach([i \in DOMAIN rawStations.value |->
                                  StationOnTimetable_fromRawData(rawStations.value[i])])
                      IN  IF stations.threw THEN ResponseContentError
                          ELSE Returned(Trip(route.value, tripName.value,
                                   sortTimetableEntriesByTime(timetable.value)))

RouteGroupTimetable_fromRawData(rawData) ==
    LET routeGroupName == getRequiredField(rawData, "route_group_name")
        rawTripTimetables == getRequiredField(rawData, "trip_timetables")
    IN  IF routeGroupName.threw \/ rawTripTimetables.threw THEN ResponseContentError
        ELSE LET tripTimetables ==
                     pushEach([i \in DOMAIN rawTripTimetables.value |->
                                  TripTimetable_fromRawData(rawTripTimetables.value[i])])
             IN  IF tripTimetables.threw THEN ResponseContentError
                 ELSE Returned([tripTimetables |-> tripTimetables.value])

TripOnStation_fromRawData(rawData) ==
    LET routeId == getRequiredField(rawData, "route_id")
        tripId == getRequiredField(rawData, "trip_id")
        route == getRequiredField(rawData, "route")
        tripName == getRequiredField(rawData, "trip_name")
        shortTripName == getOptionalField(rawData, "short_trip_name", Null)
        endsInGarage == getRequiredField(rawData, "ends_in_garage")
    IN  IF \/ routeId.threw \/ tripId.threw \/ route.threw
           \/ tripName.threw \/ endsInGarage.threw
        THEN ResponseContentError
        ELSE Returned([route |-> route.value, tripName |-> tripName.value])

GeographicalLocation_fromRawData(rawData) ==
    LET latitude == getRequiredField(rawData, "latitude")
        longitude == getRequiredField(rawData, "longitude")
    IN  IF latitude.threw \/ longitude.threw THEN ResponseContentError
        ELSE Returned(GeographicalLocation(latitude.value, longitude.value))

StationDetailsWithBusesAndTimetables_fromRawData(rawData) ==
    LET stationCode == getRequiredField(rawData, "station_code")
        internalStationId == getRequiredField(rawData, "internal_station_id")
        name == getRequiredField(rawData, "name")
        rawLocation == getRequiredField(rawData, "location")
        rawTripsOnStation == getRequiredField(rawData, "trips_on_station")
        rawTimetables == getRequiredField(rawData, "timetables")
    IN  IF \/ stationCode.threw \/ internalStationId.threw \/ name.threw
           \/ rawLocation.threw \/ rawTripsOnStation.threw \/ rawTimetables.threw
        THEN ResponseContentError
        ELSE LET location == GeographicalLocation_fromRawData(rawLocation.value)
                 tripsOnStation ==
                     pushEach([i \in DOMAIN rawTripsOnStation.value |->
                                  TripOnStation_fromRawData(rawTripsOnStation.value[i])])
                 timetables ==
                     pushEach([i \in DOMAIN rawTimetables.value |->
                                  RouteGroupTimetable_fromRawData(rawTimetables.value[i])])
             IN  IF location.threw \/ tripsOnStation.threw \/ timetables.threw
                 THEN ResponseContentError
                 ELSE Returned([location |-> location.value,
                                timetables |-> timetables.value])

\* The snapshot is its stationDetails array.
AllStationsSnapshot_fromRawData(rawData) ==
    LET capturedAt == getRequiredField(rawData, "captured_at")
        rawStationDetails == getRequiredField(rawData, "station_details")
    IN  IF capturedAt.threw \/ rawStationDetails.threw THEN ResponseContentError
        ELSE pushEach([i \in DOMAIN rawStationDetails.value |->
                 StationDetailsWithBusesAndTimetables_fromRawData(
                     rawStationDetails.value[i])])

(* JSON documents: one station with one trip, whole or lacking one field. *)

MaxEntries == 3

EntryTimes == {Entry(5, 50), Entry(5, 10), Entry(6, 5)}

EntryLists == UNION {[1..n -> EntryTimes] : n \in 0..MaxEntries}

RequiredFields ==
    [snapshot |-> {"captured_at", "station_details"},
     station |-> {"station_code", "internal_station_id", "name", "location",
                  "trips_on_station", "timetables"},
     location |-> {"latitude", "longitude"},
     trip_on_station |-> {"route_id", "trip_id", "route", "trip_name",
                          "ends_in_garage"},
     route_group |-> {"route_group_name", "trip_timetables"},
     trip_timetable |-> {"route", "trip_name", "short_trip_name",
                         "ends_in_garage", "timetable", "stations"},
     entry |-> {"hour", "minute"},
     station_on_timetable |-> {"station_code", "name", "stop_number"}]

NothingMissing == [level |-> "none", field |-> "none"]

MissingFields ==
    UNION {{[level |-> level, field |-> field] : field \in RequiredFields[level]} :
              level \in DOMAIN RequiredFields}

without(payload, field_name) ==
    [name \in DOMAIN payload \ {field_name} |-> payload[name]]

strip(level, payload, missing) ==
    IF missing.level = level THEN without(payload, missing.field) ELSE payload

\* The document of a snapshot of one station; `missing` is left out of the
\* last object of its level.
RawEntries(entries, missing) ==
    [i \in DOMAIN entries |->
        IF i = Len(entries)
        THEN strip("entry", [hour |-> entries[i].hour, minute |-> entries[i].minute],
                   missing)
        ELSE [hour |-> entries[i].hour, minute |-> entries[i].minute]]

RawTripTimetable(entries, missing) ==
    strip("trip_timetable",
          [route |-> "6", trip_name |-> "Dolgi most", short_trip_name |-> "",
           ends_in_garage |-> FALSE,
           timetable |-> RawEntries(entries, missing),
           stations |-> << [station_code |-> "600011", name |-> "Bavarski dvor",
                            stop_number |-> 1],
                           strip("station_on_timetable",
                                 [station_code |-> "600012", name |-> "Ajdovscina",
                                  stop_number |-> 2], missing) >>],
          missing)

RawStation(entries, missing) ==
    strip("station",
          [station_code |-> "600011", internal_station_id |-> 1,
           name |-> "Bavarski dvor",
           location |-> strip("location", [latitude |-> 0, longitude |-> 1], missing),
           trips_on_station |->
               << strip("trip_on_station",
                        [route_id |-> "a", trip_id |-> "b", route |-> "6",
                         trip_name |-> "Dolgi most", ends_in_garage |-> FALSE],
                        missing) >>,
           timetables |->
               << strip("route_group",
                        [route_group_name |-> "6",
                         trip_timetables |-> << RawTripTimetable(entries, missing) >>],
                        missing) >>],
          missing)

RawSnapshot(entries, missing) ==
    strip("snapshot",
          [captured_at |-> 0, station_details |-> << RawStation(entries, missing) >>],
          missing)

CompleteDocuments == {RawSnapshot(entries, NothingMissing) : entries \in EntryLists}

LoadInit ==
    /\ \E entries \in EntryLists, missing \in MissingFields \union {NothingMissing} :
          jsonData = RawSnapshot(entries, missing)
    /\ loadResult = NoResult

\* loadStationsSnapshot: AllStationsSnapshot.fromRawData(jsonData)
loadStationsSnapshot ==
    /\ loadResult = NoResult
    /\ loadResult' = AllStationsSnapshot_fromRawData(jsonData)
    /\ UNCHANGED jsonData
    /\ UNCHANGED <<engineVars, clockVars, searchVars, uiVars, stepVars, startVars>>

\* What main.ts does with a loaded snapshot: new BusArrivalPlayback on it.
startPlayback ==
    /\ loadResult # NoResult
    /\ ~loadResult.threw
    /\ lastOp = "none"
    /\ newPlayback(loadResult.value, TimeOfDay_clone(initialSimulationTime))
    /\ UNCHANGED <<clockVars, searchVars, uiVars, auxVars>>

NextLoad == loadStationsSnapshot \/ startPlayback

\* No engine yet.
EngineUnset ==
    /\ stationsSnapshot = NullObject
    /\ currentDayTime = NullObject
    /\ optimizedArrivals = <<>>
    /\ arrivalSets = <<>>
    /\ lastOp = "none"
    /\ minutes = 0
    /\ timeBefore = NullObject
    /\ arrivalsBefore = <<>>
    /\ drainedEmpty = FALSE
    /\ returnedToday = [seen |-> {}, again |-> {}]

InitLoad ==
    EngineUnset /\ ClockIdle /\ SearchIdle /\ UIIdle /\ LoadInit /\ StepIdle /\ StartIdle

SpecLoad == InitLoad /\ [][NextLoad]_vars

-----------------------------------------------------------------------------
(* replayer.ts: TimeOfDay.tick followed loop iteration by loop iteration,
   with the minute field held as the IEEE 754 double it is.  A double that is
   a whole number below 2^61 is written high * Limb + low. *)

Limb == 2^30

SignificandBits == 53

Double(high, low) == [high |-> high, low |-> low]

RECURSIVE bitLength(_)
bitLength(n) == IF n = 0 THEN 0 ELSE 1 + bitLength(n \div 2)

\* The distance between neighbouring doubles around high * Limb + low.
spacing(high) ==
    IF bitLength(high) + 30 <= SignificandBits THEN 1
    ELSE 2^(bitLength(high) + 30 - SignificandBits)

carry(high, low) ==
    IF low >= Limb THEN Double(high + 1, low - Limb) ELSE Double(high, low)

\* The double nearest to the whole number high * Limb + low, ties to even.
roundToDouble(high, low) ==
    LET ulp == spacing(high)
        below == low - (low % ulp)
        rest == low % ulp
    IN  IF rest * 2 < ulp THEN Double(high, below)
        ELSE IF rest * 2 > ulp THEN carry(high, below + ulp)
        ELSE IF (below \div ulp) % 2 = 0 THEN Double(high, below)
        ELSE carry(high, below + ulp)

\* this.minute += minutes
plus(minute, amount) ==
    LET sum == carry(minute.high + amount.high, minute.low + amount.low)
    IN  roundToDouble(sum.high, sum.low)

\* this.minute -= 60 keeping the minute when the result is not a double.
minus60Exact(minute) ==
    IF minute.low >= MinutesPerHour
    THEN Double(minute.high, minute.low - MinutesPerHour)
    ELSE Double(minute.high - 1, minute.low + Limb - MinutesPerHour)

\* this.minute -= 60
minus60(minute) ==
    LET exact == minus60Exact(minute)
    IN  roundToDouble(exact.high, exact.low)

\* this.minute >= 60
atLeast60(minute) == minute.high > 0 \/ minute.low >= MinutesPerHour

lessThan(first, second) ==
    \/ first.high < second.high
    \/ first.high = second.high /\ first.low < second.low

\* Iterations of the minutes loop followed in one call.
MaxIterations == 26

\* 1e18, 2^59 and 2^59 + 128.
HugeDeltas == {Double(931322574, 660865024), Double(2^29, 0), Double(2^29, 128)}

StepDeltas ==
    {Double(0, d) : d \in {0, 1, MinutesPerHour + 1, 2 * MinutesPerHour + 5,
                           MinutesPerDay + 2}}
        \union HugeDeltas

StepInit ==
    /\ \E hour \in {MinHour, 12, MaxHour}, minute \in {MinMinute, 30, MaxMinute} :
          tickSelf = [hour |-> hour, minute |-> Double(0, minute)]
    /\ tickArg \in StepDeltas
    /\ tickPc = "call"

\* tick: this.minute += minutes
stepAdd ==
    /\ tickPc = "call"
    /\ tickSelf' = [tickSelf EXCEPT !.minute = plus(@, tickArg)]
    /\ tickPc' = "minutes"
    /\ UNCHANGED tickArg

\* reflowUnits: one test of the first loop, and its body when the test holds.
stepMinutes ==
    /\ tickPc = "minutes"
    /\ tickSelf.hour < MaxHour + MaxIterations
    /\ IF atLeast60(tickSelf.minute)
       THEN /\ tickSelf' = [hour |-> tickSelf.hour + 1,
                            minute |-> minus60(tickSelf.minute)]
            /\ tickPc' = "minutes"
       ELSE /\ tickPc' = "hours"
            /\ UNCHANGED tickSelf
    /\ UNCHANGED tickArg

\* reflowUnits: one test of the second loop, and its body when the test holds.
stepHours ==
    /\ tickPc = "hours"
    /\ IF tickSelf.hour >= HourOverflow
       THEN /\ tickSelf' = [tickSelf EXCEPT !.hour = @ - HoursPerDay]
            /\ tickPc' = "hours"
       ELSE /\ tickPc' = "done"
            /\ UNCHANGED tickSelf
    /\ UNCHANGED tickArg

NextStep ==
    /\ stepAdd \/ stepMinutes \/ stepHours
    /\ UNCHANGED <<engineVars, clockVars, searchVars, uiVars, loadVars, startVars>>

InitStep ==
    EngineIdle /\ ClockIdle /\ SearchIdle /\ UIIdle /\ LoadIdle /\ StepInit /\ StartIdle

SpecStep == InitStep /\ [][NextStep]_vars

-----------------------------------------------------------------------------
(* main.ts: from DOMContentLoaded to the end of p.setup.  The listeners for
   the keyboard and the buttons are registered before the first await. *)

\* The sketch state as its declarations leave it.
UIUnset ==
    /\ selectedStationSnapshotIndex = Null
    /\ selectedStationSnapshot = NullObject
    /\ activeDroplets = <<>>
    /\ isSimulationPaused = FALSE
    /\ drawFailed = FALSE
    /\ isFastForwarding = FALSE
    /\ currentRealTimeSecondsPerSimulatedMinute = realTimeSecondsPerSimulatedMinute
    /\ lastDrawAge = 0
    /\ currentStationPopup = NullObject
    /\ uiOp = "none"
    /\ uiArgs = <<>>
    /\ uiBefore = <<>>

SearchUnset ==
    /\ stationSearcher = NullObject
    /\ targetLocation = NullObject
    /\ closestStationData = NoResult

StartInit ==
    /\ startPhase = "stations"
    /\ stationSnapshotsLoaded = 0
    /\ unsetRead = {}

\* availableStationSnapshots is assigned when loadAllAvailableStationSnapshots
\* has returned; the other variables are assigned by p.setup.
isAssigned(name) ==
    IF name = "availableStationSnapshots" THEN startPhase # "stations"
    ELSE lastOp # "none"

\* One pass through the loop of loadAllAvailableStationSnapshots, and the
\* assignment of its result after the last one.
loadNextStationSnapshot ==
    /\ startPhase = "stations"
    /\ stationSnapshotsLoaded' = stationSnapshotsLoaded + 1
    /\ startPhase' = IF stationSnapshotsLoaded' = Len(availableStationSnapshots)
                     THEN "routes" ELSE "stations"
    /\ UNCHANGED unsetRead
    /\ UNCHANGED <<engineVars, clockVars, searchVars, uiVars, loadVars, stepVars>>

\* availableRouteSnapshots = await loadAllAvailableRouteSnapshots(), then
\* new p5(p5Sketch, rootAppElement).
loadAllAvailableRouteSnapshots ==
    /\ startPhase = "routes"
    /\ startPhase' = "sketch"
    /\ UNCHANGED <<stationSnapshotsLoaded, unsetRead>>
    /\ UNCHANGED <<engineVars, clockVars, searchVars, uiVars, loadVars, stepVars>>

\* p.setup
setup ==
    /\ startPhase = "sketch"
    /\ lastOp = "none"
    /\ selectStationSnapshot(0)

\* A handler that reads a variable nothing has been assigned to: the read
\* gives undefined, and the handler ends in a TypeError or in the error of
\* selectStationSnapshot before it has assigned anything.
failedHandler(handler, names) ==
    /\ unsetRead' = unsetRead \union {name \in names : ~isAssigned(name)}
    /\ uiOp' = "error"
    /\ uiArgs' = <<handler>>
    /\ UNCHANGED <<selectedStationSnapshotIndex, selectedStationSnapshot,
                   activeDroplets, isSimulationPaused, drawFailed, controlVars,
                   lastDrawAge, uiBefore>>
    /\ UNCHANGED <<startPhase, stationSnapshotsLoaded>>
    /\ UNCHANGED <<engineVars, clockVars, searchVars, loadVars, stepVars>>

\* handleKeyboardInput, key "c"
closeStationPopup ==
    /\ currentStationPopup' = NullObject
    /\ uiOp' = "closePopup"
    /\ uiArgs' = <<>>
    /\ uiBefore' = entered
    /\ UNCHANGED <<selectedStationSnapshotIndex, selectedStationSnapshot,
                   activeDroplets, isSimulationPaused, drawFailed,
                   isFastForwarding, currentRealTimeSecondsPerSimulatedMinute,
                   lastDrawAge>>
    /\ UNCHANGED <<engineVars, clockVars, searchVars, auxVars>>

\* handleKeyboardInput, key "s": `checked` is the checkbox after the toggle.
toggleShowStations ==
    /\ \E checked \in BOOLEAN :
          /\ currentStationPopup' = IF ~checked THEN NullObject ELSE currentStationPopup
          /\ uiArgs' = <<checked>>
    /\ uiOp' = "showStations"
    /\ uiBefore' = entered
    /\ UNCHANGED <<selectedStationSnapshotIndex, selectedStationSnapshot,
                   activeDroplets, isSimulationPaused, drawFailed,
                   isFastForwarding, currentRealTimeSecondsPerSimulatedMinute,
                   lastDrawAge>>
    /\ UNCHANGED <<engineVars, clockVars, searchVars, auxVars>>

\* handleKeyboardInput, key "a"
toggleShowArrivals ==
    /\ uiOp' = "showArrivals"
    /\ uiArgs' = <<>>
    /\ uiBefore' = entered
    /\ UNCHANGED <<selectedStationSnapshotIndex, selectedStationSnapshot,
                   activeDroplets, isSimulationPaused, drawFailed, controlVars,
                   lastDrawAge>>
    /\ UNCHANGED <<engineVars, clockVars, searchVars, auxVars>>

\* What a handler reads of the session state.
readsOfDayChange == {"selectedStationSnapshotIndex", "availableStationSnapshots"}

\* A handler called by its listener: its body when everything it reads has
\* been assigned.
called(handler, names, body) ==
    IF \A name \in names : isAssigned(name) THEN body
    ELSE failedHandler(handler, names)

\* The keydown listener and the click listeners of the buttons.
NextStart ==
    \/ loadNextStationSnapshot
    \/ loadAllAvailableRouteSnapshots
    \/ setup
    \/ closeStationPopup
    \/ toggleSimulationPause
    \/ toggleFastForwardSimulation
    \/ called("s", {"showStationsCheckboxElement"}, toggleShowStations)
    \/ called("a", {"showArrivalsCheckboxElement"}, toggleShowArrivals)
    \/ called("resetDay", readsOfDayChange, resetDay)
    \/ called("goToNextDay", readsOfDayChange, goToNextDay)
    \/ called("goToPreviousDay", readsOfDayChange, goToPreviousDay)

InitStart ==
    /\ EngineUnset /\ ClockIdle /\ SearchUnset /\ UIUnset
    /\ LoadIdle /\ StepIdle /\ StartInit

SpecStart == InitStart /\ [][NextStart]_vars

-----------------------------------------------------------------------------
(* Properties. *)

fullIndex == generateOptimizedArrivals(stationsSnapshot)

isAscending(sets) ==
    \A i, j \in DOMAIN sets :
        i < j => /\ atOrBefore(sets[i].time, sets[j].time)
                 /\ sets[i].time # sets[j].time

inSeq(x, seq) == \E i \in DOMAIN seq : seq[i] = x

Min2(a, b) == IF a <= b THEN a ELSE b
Max2(a, b) == IF a >= b THEN a ELSE b

\* The last tick did not carry the clock past hour 24.
noWrap == minuteOfDay(timeBefore) + minutes < MinutesPerDay

\* The last tick carried the clock from hour 24 into hour 1.
rolloverTick ==
    lastOp = "tick" /\ timeBefore.hour = MaxHour /\ currentDayTime.hour = MinHour

\* C1: a tick that does not wrap returns, in ascending order, every queued
\* batch timed after the old clock value and at or before the new one, and
\* removes those batches from the queue.
C1_DrainingCompleteness ==
    (lastOp = "tick" /\ noWrap) =>
        /\ \A i \in DOMAIN arrivalsBefore :
              ( /\ strictlyAfter(arrivalsBefore[i].time, timeBefore)
                /\ atOrBefore(arrivalsBefore[i].time, currentDayTime) )
              => /\ inSeq(arrivalsBefore[i], arrivalSets)
                 /\ ~inSeq(arrivalsBefore[i], optimizedArrivals)
        /\ isAscending(arrivalSets)

\* C2: the tick that carries the clock from hour 24 into hour 1 returns
\* exactly the batches of the day timed after the old clock value together
\* with the batches timed at or before the new clock value.
C2_DayRollover ==
    rolloverTick =>
        timesOf(arrivalSets) =
            {t \in timesOf(fullIndex) :
                strictlyAfter(t, timeBefore) \/ atOrBefore(t, currentDayTime)}

\* C3: under ticks with positive deltas, every batch of the arrival index is
\* returned again and again.
C3_NoStarvation ==
    \A snapshot \in Snapshots :
        \A t \in timesOf(generateOptimizedArrivals(snapshot)) :
            []<>(stationsSnapshot = snapshot =>
                    (lastOp = "tick" /\ t \in timesOf(arrivalSets)))

\* C4: between two wraps of the clock no batch is returned by more than one
\* tick.
C4_ConsumedOnce == returnedToday.again = {}

C4_Witness ==
    /\ lastOp = "tick"
    /\ arrivalSets = <<>>
    /\ minutes = 1
    /\ timeBefore \in returnedToday.seen

\* C5: every batch tick returns is timed at or before the new clock value,
\* and comes from the queue as it was before the call, never from the
\* regenerated queue.
C5_OnlyDue ==
    lastOp = "tick" =>
        /\ \A i \in DOMAIN arrivalSets : atOrBefore(arrivalSets[i].time, currentDayTime)
        /\ Len(arrivalSets) <= Len(arrivalsBefore)
        /\ arrivalSets = SubSeq(arrivalsBefore, 1, Len(arrivalSets))
        /\ timesOf(arrivalSets) \cap timesOf(optimizedArrivals) = {}

C5_Witness ==
    /\ lastOp = "tick"
    /\ drainedEmpty
    /\ Len(arrivalSets) >= 2

\* C6: every queued batch is timed strictly after the clock, and right after
\* construction the queue is the full index without the batches timed at or
\* before the initial time.
C6_OnlyFuture ==
    /\ \A i \in DOMAIN optimizedArrivals :
          strictlyAfter(optimizedArrivals[i].time, currentDayTime)
    /\ lastOp = "construct" =>
          optimizedArrivals =
              SelectSeq(fullIndex, LAMBDA set : strictlyAfter(set.time, currentDayTime))

\* C7: a tick whose drain leaves the queue empty replaces it by the batches of
\* the index timed strictly after the clock, so after a tick the queue is
\* empty only if the index has no such batch.
C7_Regeneration ==
    lastOp = "tick" =>
        /\ drainedEmpty =>
              optimizedArrivals =
                  SelectSeq(fullIndex, LAMBDA set : strictlyAfter(set.time, currentDayTime))
        /\ optimizedArrivals = <<>> =>
              \A t \in timesOf(fullIndex) : atOrBefore(t, currentDayTime)

C7_Witness ==
    /\ lastOp = "tick"
    /\ drainedEmpty
    /\ arrivalSets = <<>>
    /\ optimizedArrivals # <<>>
    /\ Len(optimizedArrivals) < Len(fullIndex)

\* C8: after a tick the hour of a TimeOfDay is in 1..24 and its minute in
\* 0..59.
C8_ClockRange ==
    todOp = "tick" =>
        /\ tod.hour \in MinHour..MaxHour
        /\ tod.minute \in MinMinute..MaxMinute

C8_Witness ==
    /\ todOp = "tick"
    /\ todArgs[1] > MinutesPerDay
    /\ todBefore.hour = MaxHour
    /\ tod.hour = MinHour

\* C9: a tick advances the minute of the day by delta modulo 1440.
C9_ClockArithmetic ==
    todOp = "tick" =>
        minuteOfDay(tod) = (minuteOfDay(todBefore) + todArgs[1]) % MinutesPerDay

C9_Witness ==
    /\ todOp = "tick"
    /\ todArgs = <<1>>
    /\ todBefore = [hour |-> 24, minute |-> 59]
    /\ tod = [hour |-> 1, minute |-> 0]

\* C10: construction and resetTimeTo store the hour clamped to 1..24 and the
\* minute clamped to 0..59.
C10_Clamped ==
    todOp \in {"construct", "reset"} =>
        /\ tod.hour = Min2(Max2(todArgs[1], 1), 24)
        /\ tod.minute = Min2(Max2(todArgs[2], 0), 59)
        /\ (todArgs[1] \in 1..24 => tod.hour = todArgs[1])
        /\ (todArgs[2] \in 0..59 => tod.minute = todArgs[2])

C10_Witness ==
    /\ todOp = "reset"
    /\ todArgs[1] > 24
    /\ todArgs[2] < 0
    /\ tod = [hour |-> 24, minute |-> 0]

\* C11: elapsedSince throws the ordering error exactly when the earlier time
\* has a greater hour, or the same hour and a greater minute; otherwise it
\* returns (hour - earlier.hour) * 60 + (minute - earlier.minute), which is not
\* negative; it never wraps across midnight; and it leaves the clock as it was.
C11_ElapsedSince ==
    todOp = "elapsedSince" =>
        LET earlier == todArgs[1]
            isAfter == \/ earlier.hour > tod.hour
                       \/ earlier.hour = tod.hour /\ earlier.minute > tod.minute
        IN  /\ todResult.threw <=> isAfter
            /\ ~isAfter =>
                  /\ todResult.value = minuteOfDay(tod) - minuteOfDay(earlier)
                  /\ todResult.value >= 0
            /\ tod = todBefore

\* The clock at 1:05 asked about 24:50.
C11_Witness ==
    /\ todOp = "elapsedSince"
    /\ tod = TimeOfDay(MinHour, 5)
    /\ todArgs[1] = TimeOfDay(MaxHour, 50)
    /\ todResult.threw

-----------------------------------------------------------------------------
(* The timetable entries of a snapshot, named by their place in it: station,  *)
(* timetable (route group), trip and entry.                                   *)

positions(snapshot) ==
    UNION {UNION {UNION {
        {<<s, t, r, e>> :
            e \in DOMAIN snapshot[s].timetables[t].tripTimetables[r].timetable}
        : r \in DOMAIN snapshot[s].timetables[t].tripTimetables}
        : t \in DOMAIN snapshot[s].timetables}
        : s \in DOMAIN snapshot}

tripAt(snapshot, p) == snapshot[p[1]].timetables[p[2]].tripTimetables[p[3]]
entryAt(snapshot, p) == tripAt(snapshot, p).timetable[p[4]]
timeAt(snapshot, p) ==
    [hour |-> entryAt(snapshot, p).hour, minute |-> entryAt(snapshot, p).minute]

\* What an arrival event says: route, trip name and coordinates.
described(arrival) ==
    <<arrival.route, arrival.tripName,
      arrival.location.latitude, arrival.location.longitude>>

\* What the arrival event of an entry has to say.
expected(snapshot, p) ==
    <<tripAt(snapshot, p).route, tripAt(snapshot, p).tripName,
      snapshot[p[1]].location.latitude, snapshot[p[1]].location.longitude>>

\* Every timetable entry lies in the value range of the data model.
inRange(snapshot) ==
    \A p \in positions(snapshot) :
        /\ entryAt(snapshot, p).hour \in MinHour..MaxHour
        /\ entryAt(snapshot, p).minute \in MinMinute..MaxMinute

\* The order in which the four nested loops reach the entries.
traversedBefore(p, q) ==
    \E i \in 1..4 : p[i] < q[i] /\ \A j \in 1..(i - 1) : p[j] = q[j]

\* The constructor or the reload of the last tick has built the index.
indexBuilt == lastOp = "construct" \/ drainedEmpty

\* C13: in the index built from a snapshot whose entries lie in range there is
\* at most one batch per (hour, minute), and it contains the arrivals of all
\* stations, routes and trips timed at that hour and minute.
C13_Coalescing ==
    LET index == fullIndex
        all == positions(stationsSnapshot)
    IN  indexBuilt /\ inRange(stationsSnapshot) =>
            /\ \A i, j \in DOMAIN index : index[i].time = index[j].time => i = j
            /\ \A i \in DOMAIN index :
                  LET here == {p \in all : timeAt(stationsSnapshot, p) = index[i].time}
                      batch == index[i].arrivals
                  IN  /\ Len(batch) = Cardinality(here)
                      /\ \A p \in here :
                            \E k \in DOMAIN batch :
                                described(batch[k]) = expected(stationsSnapshot, p)

\* The engine holds a snapshot in which two stations are served in the same
\* minute, and the index has both arrivals in one batch.
C13_Witness ==
    /\ lastOp = "tick"
    /\ drainedEmpty
    /\ \E p, q \in positions(stationsSnapshot) :
          /\ p[1] # q[1]
          /\ timeAt(stationsSnapshot, p) = timeAt(stationsSnapshot, q)
    /\ \E i \in DOMAIN fullIndex :
          \E k, l \in DOMAIN fullIndex[i].arrivals :
              fullIndex[i].arrivals[k].location # fullIndex[i].arrivals[l].location

\* The arrival events of the index, named by batch and place in the batch.
events(sets) ==
    UNION {{<<i, k>> : k \in DOMAIN sets[i].arrivals} : i \in DOMAIN sets}

\* C14: the index holds exactly one arrival event per timetable entry of the
\* snapshot (repeated entries included), each in the batch of its entry's
\* (hour, minute), carrying the trip's route and trip name and the owning
\* station's coordinates.
C14_IndexCompleteness ==
    LET index == fullIndex
        all == positions(stationsSnapshot)
    IN  indexBuilt /\ inRange(stationsSnapshot) =>
            /\ Cardinality(events(index)) = Cardinality(all)
            /\ \A p \in all :
                  LET time == timeAt(stationsSnapshot, p)
                      event == expected(stationsSnapshot, p)
                  IN  \E i \in DOMAIN index :
                          /\ index[i].time = time
                          /\ Cardinality({k \in DOMAIN index[i].arrivals :
                                             described(index[i].arrivals[k]) = event})
                               = Cardinality({q \in all :
                                                /\ timeAt(stationsSnapshot, q) = time
                                                /\ expected(stationsSnapshot, q) = event})

\* The snapshot has a trip with the same entry twice and a station with two
\* trips of one route, and the index has two equal events in one batch.
C14_Witness ==
    /\ lastOp = "tick"
    /\ drainedEmpty
    /\ \E p, q \in positions(stationsSnapshot) :
          /\ p # q
          /\ timeAt(stationsSnapshot, p) = timeAt(stationsSnapshot, q)
          /\ expected(stationsSnapshot, p) = expected(stationsSnapshot, q)
    /\ \E i \in DOMAIN fullIndex :
          \E k, l \in DOMAIN fullIndex[i].arrivals :
              k # l /\ fullIndex[i].arrivals[k] = fullIndex[i].arrivals[l]

\* C15: after construction and after every tick the queue is strictly
\* ascending by (hour, minute).
C15_QueueSorted == isAscending(optimizedArrivals)

\* A tick has rebuilt the queue from a snapshot whose entries are not traversed
\* in the order of their times.
C15_Witness ==
    /\ lastOp = "tick"
    /\ drainedEmpty
    /\ Len(optimizedArrivals) >= 3
    /\ \E p, q \in positions(stationsSnapshot) :
          /\ traversedBefore(p, q)
          /\ timeAt(stationsSnapshot, q).hour = timeAt(stationsSnapshot, p).hour
          /\ timeAt(stationsSnapshot, q).minute < timeAt(stationsSnapshot, p).minute

\* The index as a list of what it says: per batch its time and what each of
\* its events says, in order.
told(sets) ==
    [i \in DOMAIN sets |->
        [time |-> sets[i].time,
         arrivals |-> [k \in DOMAIN sets[i].arrivals |-> described(sets[i].arrivals[k])]]]

\* The one index a snapshot stands for: its entry times in ascending order,
\* each with the events of the entries at that time in traversal order.
canonicalIndex(snapshot) ==
    LET all == positions(snapshot)
        times == {timeAt(snapshot, p) : p \in all}
        timeOfBatch(i) ==
            CHOOSE time \in times :
                Cardinality({other \in times :
                                minuteOfDay(other) < minuteOfDay(time)}) = i - 1
        entriesOfBatch(i) == {p \in all : timeAt(snapshot, p) = timeOfBatch(i)}
        entryOfEvent(i, k) ==
            CHOOSE p \in entriesOfBatch(i) :
                Cardinality({q \in entriesOfBatch(i) : traversedBefore(q, p)}) = k - 1
    IN  [i \in 1..Cardinality(times) |->
            [time |-> timeOfBatch(i),
             arrivals |-> [k \in 1..Cardinality(entriesOfBatch(i)) |->
                              expected(snapshot, entryOfEvent(i, k))]]]

\* C19: building the index is deterministic: every regeneration from the same
\* snapshot, at any point of a run, yields the same sequence of batches with
\* the same arrivals in the same order, the order inside a batch being the
\* order in which stations, route groups, trips and entries are traversed.
C19_Deterministic ==
    indexBuilt /\ inRange(stationsSnapshot) =>
        LET canonical == canonicalIndex(stationsSnapshot)
            after(i) == strictlyAfter(canonical[i].time, currentDayTime)
            first == IF \E i \in DOMAIN canonical : after(i)
                     THEN CHOOSE i \in DOMAIN canonical :
                              after(i) /\ \A j \in 1..(i - 1) : ~after(j)
                     ELSE Len(fullIndex) + 1
        IN  /\ told(fullIndex) = canonical
            /\ told(optimizedArrivals)
                   = [i \in 1..(Len(fullIndex) + 1 - first) |-> canonical[i + first - 1]]

\* A tick has rebuilt the queue, and it holds a batch with the events of two
\* stations, the earlier station's first.
C19_Witness ==
    /\ lastOp = "tick"
    /\ drainedEmpty
    /\ \E i \in DOMAIN optimizedArrivals :
          \E k, l \in DOMAIN optimizedArrivals[i].arrivals :
              /\ k < l
              /\ optimizedArrivals[i].arrivals[k].location.longitude
                    < optimizedArrivals[i].arrivals[l].location.longitude

\* The location objects the arrival events of a list of batches point to.
locationsOf(sets) ==
    {sets[i].arrivals[k].location : <<i, k>> \in events(sets)}

\* The location objects a snapshot holds.
locationsIn(snapshot) == {snapshot[s].location : s \in DOMAIN snapshot}

\* No object of the queue or of the returned batches is an object of the
\* snapshot: a change made to a batch or to an arrival event stays outside it.
nothingShared ==
    (locationsOf(optimizedArrivals) \cup locationsOf(arrivalSets))
        \cap locationsIn(stationsSnapshot) = {}

\* C18: the snapshot is read-only for the engine: no construction, tick or
\* regeneration changes it, and a change made to the batches or arrival events
\* of the queue cannot reach it.
C18_SnapshotReadOnly ==
    /\ []nothingShared
    /\ [][stationsSnapshot' = stationsSnapshot]_vars

\* A tick has rebuilt the queue, and an arrival event of it has the coordinates
\* of a station's location without being that object.
C18_Witness ==
    /\ lastOp = "tick"
    /\ drainedEmpty
    /\ \E copy \in locationsOf(optimizedArrivals) :
          \E original \in locationsIn(stationsSnapshot) :
              /\ copy.latitude = original.latitude
              /\ copy.longitude = original.longitude
              /\ copy # original

\* The distance from station number i of the searcher's snapshot to the target
\* of the last search.
distanceOf(i) ==
    distanceToLeafetLatLng(stationSearcher.stationsSnapshot[i].location, targetLocation)

\* C16: getClosestStation returns a station whose distance to the query point
\* is minimal among all stations of the snapshot, together with that distance,
\* also when some station lies at distance exactly 0; it returns null exactly
\* when the snapshot has no stations.
C16_ClosestStation ==
    closestStationData # NoResult =>
        LET result == closestStationData.value
            stations == DOMAIN stationSearcher.stationsSnapshot
        IN  /\ result = NullObject <=> stations = {}
            /\ result # NullObject =>
                  /\ result[2] \in stations
                  /\ result[1] = distanceOf(result[2])
                  /\ \A i \in stations : result[1] <= distanceOf(i)

\* C17: when several stations are at the same minimal distance, the one that
\* comes first in snapshot order is returned, for every distance value
\* including 0.
C17_FirstOfTies ==
    closestStationData # NoResult =>
        LET result == closestStationData.value
            stations == DOMAIN stationSearcher.stationsSnapshot
            closest == {i \in stations : \A j \in stations : distanceOf(i) <= distanceOf(j)}
        IN  Cardinality(closest) >= 2 =>
                /\ result # NullObject
                /\ result[2] \in closest
                /\ \A i \in closest : result[2] <= i

\* C12: droplets never trigger the ordering error: in every state of the
\* render loop every droplet of activeDroplets has an initialization time at
\* or before the playback clock under elapsedSince's comparison, so that
\* updateDroplets and drawDroplets never throw.
C12_DropletsInOrder ==
    /\ ~drawFailed
    /\ \A i \in DOMAIN activeDroplets :
          ~timeSinceInitialization(activeDroplets[i], currentDayTime).threw

-----------------------------------------------------------------------------
(* Loading. *)

loaded == loadResult # NoResult

\* The timetable entries of the one trip of a document, as it lists them.
rawEntriesOf(document) ==
    LET raw == document.station_details[1].timetables[1].trip_timetables[1].timetable
    IN  [i \in DOMAIN raw |-> Entry(raw[i].hour, raw[i].minute)]

\* The timetable of the one trip of a loaded snapshot.
loadedEntriesOf(snapshot) == snapshot[1].timetables[1].tripTimetables[1].timetable

occurrences(entry, entries) == Cardinality({i \in DOMAIN entries : entries[i] = entry})

notAfter(first, second) ==
    \/ first.hour < second.hour
    \/ first.hour = second.hour /\ first.minute <= second.minute

\* C21: a document that lacks a required field at any level makes
\* AllStationsSnapshot.fromRawData throw a ResponseContentError: nothing is
\* returned and no engine is constructed.
C21_MissingFieldFails ==
    (loaded /\ jsonData \notin CompleteDocuments)
        => (loadResult = ResponseContentError /\ EngineUnset)

C21_Witness ==
    /\ jsonData = RawSnapshot(<<Entry(5, 50), Entry(5, 10)>>,
                              [level |-> "entry", field |-> "minute"])
    /\ loadResult = ResponseContentError

\* C22: the timetable TripTimetable.fromRawData builds is ascending by
\* (hour, minute) and holds exactly the entries of the document, each as
\* often as the document lists it.
C22_EntriesSorted ==
    (loaded /\ ~loadResult.threw) =>
        LET entries == loadedEntriesOf(loadResult.value)
            raw == rawEntriesOf(jsonData)
        IN  /\ \A i, j \in DOMAIN entries : i < j => notAfter(entries[i], entries[j])
            /\ Len(entries) = Len(raw)
            /\ \A entry \in EntryTimes :
                  occurrences(entry, entries) = occurrences(entry, raw)

C22_Witness ==
    /\ loaded
    /\ ~loadResult.threw
    /\ rawEntriesOf(jsonData) = <<Entry(6, 5), Entry(5, 50), Entry(5, 10)>>
    /\ loadedEntriesOf(loadResult.value) = <<Entry(5, 10), Entry(5, 50), Entry(6, 5)>>
    /\ lastOp = "construct"

-----------------------------------------------------------------------------
(* Termination of tick. *)

\* C23: the loops of TimeOfDay.tick end for every finite delta >= 0: every
\* pass through the body of the minutes loop lowers the minute and every pass
\* through the body of the hours loop lowers the hour.
C23_LoopsEnd ==
    [][/\ (tickPc = "minutes" /\ tickPc' = "minutes")
              => lessThan(tickSelf'.minute, tickSelf.minute)
       /\ (tickPc = "hours" /\ tickPc' = "hours")
              => tickSelf'.hour < tickSelf.hour]_vars

-----------------------------------------------------------------------------
(* Ticks in two parts. *)

\* What BusArrivalPlayback.tick(delta) returns and leaves, on an engine with
\* the given clock and queue.
tickOutcome(time, queue, snapshot, delta) ==
    LET ticked == TimeOfDay_tick(time, delta)
        count == drainCount(queue, ticked.hour, ticked.minute)
    IN  [returned |-> SubSeq(queue, 1, count),
         currentDayTime |-> ticked,
         optimizedArrivals |->
             reloadIfEmpty(SubSeq(queue, count + 1, Len(queue)), ticked, snapshot)]

\* C24: tick(a) followed by tick(b) returns the batches one tick(a + b) from
\* the same state returns, in the same order, and leaves the same clock and
\* queue.
C24_TickAdditive ==
    [][(lastOp = "tick" /\ lastOp' = "tick") =>
          LET whole == tickOutcome(timeBefore, arrivalsBefore, stationsSnapshot,
                                   minutes + minutes')
          IN  /\ arrivalSets \o arrivalSets' = whole.returned
              /\ currentDayTime' = whole.currentDayTime
              /\ optimizedArrivals' = whole.optimizedArrivals]_vars

-----------------------------------------------------------------------------
(* Droplets of a frame. *)

\* Simulated minutes from a stamp to the clock, the clock being at most a
\* day ahead of the stamp.
minutesSince(stamp, clock) ==
    (minuteOfDay(clock) - minuteOfDay(stamp)) % MinutesPerDay

expired(droplet, clock) ==
    minutesSince(droplet.initializationTime, clock) * 10 >= dropletLifetimeInSimulatedTenths

copies(droplet, droplets) ==
    Cardinality({i \in DOMAIN droplets : droplets[i] = droplet})

\* The droplets a list of batches calls for: one per arrival, stamped with the
\* time of the batch and placed at the arrival's location.
calledFor(droplet, sets) ==
    Cardinality({event \in events(sets) :
        /\ sets[event[1]].time = droplet.initializationTime
        /\ LatLng(sets[event[1]].arrivals[event[2]].location.latitude,
                  sets[event[1]].arrivals[event[2]].location.longitude)
               = droplet.location})

rangeOf(sequence) == {sequence[i] : i \in DOMAIN sequence}

\* C25: after a frame drawn while the simulation runs, every droplet that has
\* not outlived its lifetime is on the map as often as it was before the frame
\* plus once per arrival of the returned batches with its time and place, and
\* no droplet that has outlived its lifetime is on the map.
C25_DropletsOfFrame ==
    (uiOp = "draw" /\ ~isSimulationPaused) =>
        LET before == uiBefore.activeDroplets
            fresh == dropletsOf(arrivalSets)
        IN  /\ \A droplet \in rangeOf(before) \union rangeOf(fresh)
                              \union rangeOf(activeDroplets) :
                  copies(droplet, activeDroplets) =
                      IF expired(droplet, currentDayTime) THEN 0
                      ELSE copies(droplet, before) + calledFor(droplet, arrivalSets)
            /\ \A i \in DOMAIN activeDroplets :
                  ~expired(activeDroplets[i], currentDayTime)

-----------------------------------------------------------------------------
(* Pausing. *)

simulationState == <<currentDayTime, optimizedArrivals, activeDroplets>>

\* C26: a frame drawn while the simulation is paused leaves the clock, the
\* queue and the droplets as they are; a frame drawn while it runs, the first
\* one after a pause included, moves the clock by the wall time since the
\* frame before it and no more; toggling the pause twice gives back the
\* running state and changes nothing else of the simulation.
C26_PauseFreezes ==
    [][/\ (uiOp' = "draw" /\ isSimulationPaused) => UNCHANGED simulationState
       /\ (uiOp' = "draw" /\ ~isSimulationPaused) =>
              currentDayTime' =
                  TimeOfDay_tick(currentDayTime,
                      uiArgs'[1] \div currentRealTimeSecondsPerSimulatedMinute)
       /\ uiOp' = "pause" =>
              /\ isSimulationPaused' # isSimulationPaused
              /\ UNCHANGED simulationState
       /\ (uiOp = "pause" /\ uiOp' = "pause") =>
              isSimulationPaused' = uiBefore.isSimulationPaused]_vars

C26_Witness ==
    /\ uiOp = "draw"
    /\ isSimulationPaused
    /\ lastDrawAge = 0
    /\ activeDroplets # <<>>
    /\ optimizedArrivals # <<>>
    /\ currentDayTime # initialSimulationTime

-----------------------------------------------------------------------------
(* Start-up. *)

\* C27: no handler reads availableStationSnapshots, selectedStationSnapshotIndex,
\* playback, stationSearcher or a checkbox element before it has been
\* assigned, however the events fall between the loading steps and p.setup.
C27_HandlersSeeAssignedState == unsetRead = {}

-----------------------------------------------------------------------------
(* Changing the day. *)

lastSnapshotIndex == Len(availableStationSnapshots) - 1

following(index) == IF index = lastSnapshotIndex THEN 0 ELSE index + 1

preceding(index) == IF index = 0 THEN lastSnapshotIndex ELSE index - 1

\* C28: selectedStationSnapshotIndex always lies in [0, n - 1]; the next-day
\* handler selects the following snapshot and the first one after the last,
\* the previous-day handler the preceding one and the last one before the
\* first, the reset handler the same one; the previous-day handler right
\* after the next-day handler gives back the index the latter found.
C28_IndexWraps ==
    /\ [](selectedStationSnapshotIndex \in 0..lastSnapshotIndex)
    /\ [][uiOp' = "select" =>
             /\ goToNextDay =>
                    selectedStationSnapshotIndex' = following(selectedStationSnapshotIndex)
             /\ goToPreviousDay =>
                    selectedStationSnapshotIndex' = preceding(selectedStationSnapshotIndex)
             /\ resetDay => selectedStationSnapshotIndex' = selectedStationSnapshotIndex
             /\ (/\ uiOp = "select"
                 /\ selectedStationSnapshotIndex
                        = following(uiBefore.selectedStationSnapshotIndex)
                 /\ goToPreviousDay)
                    => selectedStationSnapshotIndex'
                           = uiBefore.selectedStationSnapshotIndex]_vars

C28_Witness ==
    /\ uiOp = "select"
    /\ uiBefore.selectedStationSnapshotIndex = lastSnapshotIndex
    /\ selectedStationSnapshotIndex = 0
    /\ uiBefore.activeDroplets # <<>>

-----------------------------------------------------------------------------
(* One snapshot for the engine, the searcher and the sketch. *)

stationLocations(snapshot) ==
    {LatLng(snapshot[i].location.latitude, snapshot[i].location.longitude) :
         i \in DOMAIN snapshot}

\* C29: in every state of the sketch the engine's snapshot, the searcher's
\* snapshot and selectedStationSnapshot are the snapshot at
\* availableStationSnapshots[selectedStationSnapshotIndex], and the engine's
\* queue and the searcher's index are built from it; the batches a frame
\* gets from the engine are batches of the selected snapshot, and the popup
\* a click opens stands on a station of the selected snapshot.
C29_OneSnapshot ==
    /\ [](/\ selectedStationSnapshot
                 = availableStationSnapshots[selectedStationSnapshotIndex + 1]
          /\ stationsSnapshot = selectedStationSnapshot
          /\ stationSearcher = StationSearcher(selectedStationSnapshot)
          /\ rangeOf(optimizedArrivals)
                 \subseteq rangeOf(generateOptimizedArrivals(selectedStationSnapshot)))
    /\ [][/\ (uiOp' = "draw" /\ ~isSimulationPaused) =>
                 rangeOf(arrivalSets')
                     \subseteq rangeOf(generateOptimizedArrivals(selectedStationSnapshot))
          /\ (uiOp' = "click" /\ uiArgs'[1] /\ currentStationPopup' # NullObject) =>
                 currentStationPopup'.popupAnchorLocation
                     \in stationLocations(selectedStationSnapshot)]_vars

C29_Witness ==
    /\ uiOp = "draw"
    /\ arrivalSets # <<>>
    /\ selectedStationSnapshotIndex # 0
    /\ currentStationPopup # NullObject
    /\ currentStationPopup.popupAnchorLocation
           \in stationLocations(selectedStationSnapshot)
    /\ \E i \in DOMAIN availableStationSnapshots :
           currentStationPopup.popupAnchorLocation
               \notin stationLocations(availableStationSnapshots[i])

-----------------------------------------------------------------------------
(* The speed of the simulation. *)

\* C30: in every state of the sketch currentRealTimeSecondsPerSimulatedMinute
\* is the fast-forward ratio when isFastForwarding is true and the normal
\* ratio otherwise; the fast-forward handler flips the switch, and run twice
\* in a row it gives back the switch and the ratio it found; a day change
\* (reset, next, previous) leaves the switch and the ratio as they are; a
\* running frame ticks the engine by its wall time divided by the ratio.
C30_RatioFollowsSwitch ==
    /\ [](currentRealTimeSecondsPerSimulatedMinute =
              IF isFastForwarding
              THEN fastForwardedRealTimeSecondsPerSimulatedMinute
              ELSE realTimeSecondsPerSimulatedMinute)
    /\ [][/\ uiOp' = "fastForward" => isFastForwarding' # isFastForwarding
          /\ (uiOp = "fastForward" /\ uiOp' = "fastForward") =>
                 /\ isFastForwarding' = uiBefore.isFastForwarding
                 /\ currentRealTimeSecondsPerSimulatedMinute' =
                        uiBefore.currentRealTimeSecondsPerSimulatedMinute
          /\ uiOp' = "select" =>
                 UNCHANGED <<isFastForwarding,
                             currentRealTimeSecondsPerSimulatedMinute>>
          /\ (uiOp' = "draw" /\ ~isSimulationPaused) =>
                 minutes' = uiArgs'[1] \div
                                (IF isFastForwarding
                                 THEN fastForwardedRealTimeSecondsPerSimulatedMinute
                                 ELSE realTimeSecondsPerSimulatedMinute)]_vars

C30_Witness ==
    /\ uiOp = "select"
    /\ isFastForwarding
    /\ uiBefore.isFastForwarding
    /\ uiBefore.currentDayTime # initialSimulationTime
    /\ uiBefore.selectedStationSnapshotIndex # selectedStationSnapshotIndex

====
